---- MODULE Spec2Model ----
(***************************************************************************)
(* A model of node_server.py: one ledger node (Block, Blockchain and the   *)
(* Flask request handlers around the global `blockchain` and `peers`).     *)
(*                                                                         *)
(* Strings that hold hex digests are modelled as non-empty sequences of    *)
(* naturals whose first element is the number of leading "0" characters    *)
(* of the string; the rest identifies the text after them.  The literal    *)
(* "0" is <<1>>.  A digest is its leading-zero count followed by the       *)
(* serialization it was computed from (SHA-256 idealised as collision      *)
(* free).  The empty sequence stands for "attribute not set".              *)
(*                                                                         *)
(* Python lists have identity: mine() stores the very list object of the   *)
(* pending pool in the new block.  A Block record therefore carries        *)
(* txs_obj, the identity of the list object its transactions field refers  *)
(* to (0 for a list no one else holds), and an append to the pool list is  *)
(* seen through every reference to that object.                            *)
(***************************************************************************)
EXTENDS Integers, Sequences, FiniteSets, TLC

\* ---- bounds of the model ------------------------------------------------
MaxChain == 3
MaxTx == 2
PowModulus == 3
MaxPeers == 1

\* ---- program constants --------------------------------------------------
difficulty == 2

Threads == {1, 2}
\* Values of time.time() when a block is mined (the genesis block has 0).
Timestamps == {1}

\* Addresses of other nodes.
PeerAddrs == 1..MaxPeers

VARIABLES blockchain, peers, thr, ntx

vars == <<blockchain, peers, thr, ntx>>

\* ---- strings / digests --------------------------------------------------
NoHash == <<>>
ZeroStr == <<1>>

RECURSIVE SumSeq(_)
SumSeq(s) == IF s = <<>> THEN 0 ELSE Head(s) + SumSeq(Tail(s))

\* json.dumps(self.__dict__, sort_keys=True): the keys in sorted order
\* (hash, index, nonce, previous_hash, timestamp, transactions); the key
\* "hash" is present exactly when the attribute has been assigned.
Serialize(b) ==
    (IF b.hash = NoHash THEN <<5>> ELSE <<6, Len(b.hash)>> \o b.hash)
    \o <<b.index, b.nonce, Len(b.previous_hash)>> \o b.previous_hash
    \o <<b.timestamp, Len(b.transactions)>> \o b.transactions

\* Number of leading "0" characters of the SHA-256 hex digest of a text: a
\* fixed pseudo-random function of the text.
LeadingZeros(ser) ==
    IF SumSeq(ser) % PowModulus = 0 THEN difficulty ELSE SumSeq(ser) % 2

Sha256Hex(ser) == <<LeadingZeros(ser)>> \o ser

\* str.startswith('0' * n)
StartsWithZeros(h, n) == h # <<>> /\ h[1] >= n

compute_hash(b) == Sha256Hex(Serialize(b))

\* delattr(block, "hash") / a Block on which hash was never assigned
WithoutHash(b) == [b EXCEPT !.hash = NoHash]

Block(index, transactions, txs_obj, timestamp, previous_hash, nonce) ==
    [index |-> index, transactions |-> transactions, txs_obj |-> txs_obj,
     timestamp |-> timestamp, previous_hash |-> previous_hash,
     nonce |-> nonce, hash |-> NoHash]

NoBlock == Block(0 - 1, <<>>, 0, 0, <<>>, 0)

is_valid_proof(block, block_hash) ==
    /\ StartsWithZeros(block_hash, difficulty)
    /\ block_hash = compute_hash(block)

RECURSIVE PowLoop(_)
PowLoop(b) ==
    IF StartsWithZeros(compute_hash(b), difficulty)
    THEN b
    ELSE PowLoop([b EXCEPT !.nonce = b.nonce + 1])

\* proof_of_work with the search started at nonce 1
proof_of_work_from_one(b) == PowLoop([b EXCEPT !.nonce = 1])

\* proof_of_work(block): the block as the search leaves it (nonce set);
\* the returned digest is compute_hash of it.
proof_of_work(b) == PowLoop([b EXCEPT !.nonce = 0])

GenesisBlock ==
    LET g == Block(0, <<>>, 0, 0, ZeroStr, 0)
    IN  [g EXCEPT !.hash = compute_hash(g)]

\* Blockchain() followed by create_genesis_block()
NewBlockchain ==
    [type |-> "Blockchain",
     chain |-> <<GenesisBlock>>,
     unconfirmed_transactions |-> <<>>,
     pool_obj |-> 1]

\* ---- Blockchain methods as functions of the object's state --------------
last_block(bc) == bc.chain[Len(bc.chain)]

\* add_block without the comparison of lines 55-56
add_block_checks_no_link(bc, block, proof) == is_valid_proof(block, proof)

\* add_block, lines 53-59: the two checks, in the code's order.
add_block_checks(bc, block, proof) ==
    /\ last_block(bc).hash = block.previous_hash
    /\ is_valid_proof(block, proof)

\* add_block without line 61
add_block_append_no_hash(bc, block, proof) ==
    [bc EXCEPT !.chain = Append(@, block)]

\* add_block, lines 61-62: block.hash = proof; self.chain.append(block)
add_block_append(bc, block, proof) ==
    [bc EXCEPT !.chain = Append(@, [block EXCEPT !.hash = proof])]

\* list.append on the list object `obj`, seen through a block that holds it
SeenThrough(b, obj, tx) ==
    IF b.txs_obj = obj /\ obj # 0
    THEN [b EXCEPT !.transactions = Append(@, tx)]
    ELSE b

\* add_new_transaction: self.unconfirmed_transactions.append(transaction)
add_new_transaction(bc, tx) ==
    [bc EXCEPT !.unconfirmed_transactions = Append(@, tx),
               !.chain = [i \in 1..Len(@) |-> SeenThrough(@[i], bc.pool_obj, tx)]]

\* mine, lines 120-125: the block built from the pool list object itself
mine_new_block(bc, now) ==
    Block(last_block(bc).index + 1, bc.unconfirmed_transactions, bc.pool_obj,
          now, last_block(bc).hash, 0)

\* mine, line 130: self.unconfirmed_transactions = []  (a new list object)
mine_clear(bc) ==
    [bc EXCEPT !.unconfirmed_transactions = <<>>, !.pool_obj = @ + 1]

\* check_chain_validity with the first block exempt from is_valid_proof
RECURSIVE ValidityLoop_genesis_exempt(_, _, _)
ValidityLoop_genesis_exempt(chain, i, previous_hash) ==
    IF i > Len(chain) THEN "True"
    ELSE IF chain[i].hash = NoHash THEN "raise"
    ELSE IF (i > 1 /\ ~is_valid_proof(WithoutHash(chain[i]), chain[i].hash))
            \/ previous_hash # chain[i].previous_hash
         THEN "False"
         ELSE ValidityLoop_genesis_exempt(chain, i + 1, chain[i].hash)

\* check_chain_validity over Block objects: the loop from position i on
RECURSIVE ValidityLoop(_, _, _)
ValidityLoop(chain, i, previous_hash) ==
    IF i > Len(chain) THEN "True"
    ELSE IF chain[i].hash = NoHash THEN "raise"
    ELSE IF ~is_valid_proof(WithoutHash(chain[i]), chain[i].hash)
            \/ previous_hash # chain[i].previous_hash
         THEN "False"
         ELSE ValidityLoop(chain, i + 1, chain[i].hash)

\* check_chain_validity that never looks at an element
check_chain_validity_trusting(chain, json) == "True"

\* check_chain_validity(chain).  `json` says that the elements are the dicts
\* of a decoded JSON document: `block.hash` on a dict raises AttributeError.
check_chain_validity(chain, json) ==
    IF chain = <<>> THEN "True"
    ELSE IF json THEN "raise"
    ELSE ValidityLoop(chain, 1, ZeroStr)

\* consensus with >= for > at line 291
consensus_visit_ge(st, r) ==
    IF st.raised \/ ~(r.length >= st.current_len) THEN st
    ELSE LET v == check_chain_validity(r.chain, TRUE)
         IN  IF v = "raise" THEN [st EXCEPT !.raised = TRUE]
             ELSE IF v = "True"
                  THEN [st EXCEPT !.current_len = r.length,
                                  !.longest_chain = r.chain]
                  ELSE st

\* consensus, lines 287-293: the loop over the peers' responses, in
\* iteration order.  st = [raised, current_len, longest_chain]; the empty
\* sequence stands for both None and [] (both are falsy at line 295).
consensus_visit(st, r) ==
    IF st.raised \/ ~(r.length > st.current_len) THEN st
    ELSE LET v == check_chain_validity(r.chain, TRUE)
         IN  IF v = "raise" THEN [st EXCEPT !.raised = TRUE]
             ELSE IF v = "True"
                  THEN [st EXCEPT !.current_len = r.length,
                                  !.longest_chain = r.chain]
                  ELSE st

RECURSIVE consensus_loop(_, _)
consensus_loop(st, rs) ==
    IF rs = <<>> THEN st
    ELSE consensus_loop(consensus_visit(st, Head(rs)), Tail(rs))

consensus_scan(current_len, rs) ==
    consensus_loop([raised |-> FALSE, current_len |-> current_len,
                    longest_chain |-> <<>>], rs)

\* `blockchain = longest_chain`: the global now names a list of dicts
AsList(chain) ==
    [type |-> "list", chain |-> chain,
     unconfirmed_transactions |-> <<>>, pool_obj |-> 0]

\* create_chain_from_dump: [raised, bc]
RECURSIVE from_dump_loop(_, _, _)
from_dump_loop(bc, chain_dump, idx) ==
    IF idx > Len(chain_dump) THEN [raised |-> FALSE, bc |-> bc]
    ELSE LET d == chain_dump[idx]
             block == Block(d.index, d.transactions, 0, d.timestamp,
                            d.previous_hash, d.nonce)
         IN  IF add_block_checks(bc, block, d.hash)
             THEN from_dump_loop(add_block_append(bc, block, d.hash),
                                 chain_dump, idx + 1)
             ELSE [raised |-> TRUE, bc |-> bc]

\* create_chain_from_dump without lines 247-248
create_chain_from_dump_unchecked(chain_dump) ==
    [raised |-> FALSE,
     bc |-> [NewBlockchain EXCEPT !.chain =
                @ \o [i \in 1..(Len(chain_dump) - 1) |-> chain_dump[i + 1]]]]

create_chain_from_dump(chain_dump) ==
    from_dump_loop(NewBlockchain, chain_dump, 2)

\* ---- what the environment can send --------------------------------------
\* A transaction record that did not come from this node's clients.
PeerTx == MaxTx + 1

\* The chain of a peer that runs the same program from the same genesis and
\* has mined n - 1 blocks, as its /chain endpoint dumps it.
RECURSIVE PeerChain(_)
PeerChain(n) ==
    IF n <= 1 THEN <<GenesisBlock>>
    ELSE LET c == PeerChain(n - 1)
             b == proof_of_work(Block(c[n - 1].index + 1, <<PeerTx>>, 0, 1,
                                      c[n - 1].hash, 0))
         IN  Append(c, [b EXCEPT !.hash = compute_hash(b)])

\* The same dump with the last block's previous_hash altered.
TamperedChain(n) ==
    [i \in 1..n |-> IF i = n /\ n > 1
                    THEN [PeerChain(n)[i] EXCEPT !.previous_hash = ZeroStr]
                    ELSE PeerChain(n)[i]]

\* Responses of a peer's /chain endpoint (requests.get(...).json()): the
\* chains of peers that are behind or ahead, a tampered chain, and answers
\* whose length field is not the length of the chain they carry.
PeerResponses ==
    { [length |-> n, chain |-> PeerChain(n)] : n \in {1, MaxChain + 1} }
    \cup { [length |-> MaxChain, chain |-> TamperedChain(MaxChain)],
           [length |-> MaxChain + 1, chain |-> PeerChain(1)],
           [length |-> MaxChain + 1, chain |-> <<>>] }

\* Chain dumps a node may answer /register_node with.
ChainDumps ==
    { PeerChain(n) : n \in 1..MaxChain } \cup { TamperedChain(MaxChain), <<>> }

\* Bodies of POST /add_block: [block, proof].  The block a peer that shares
\* this node's view would announce, and that block with one thing wrong:
\* another index, another previous_hash, not mined, or sent with the digest
\* of a different block; and the chain's last block announced once more.
ReceivedBlocks(bc) ==
    LET Mined(idx, txs, prev) == proof_of_work(Block(idx, txs, 0, 1, prev, 0))
        Msg(b, digest_of) == [block |-> b, proof |-> compute_hash(digest_of)]
        idx  == last_block(bc).index + 1
        prev == last_block(bc).hash
        good == Mined(idx, <<PeerTx>>, prev)
        raw  == Block(idx, <<PeerTx>>, 0, 1, prev, 0)
    IN  { Msg(good, good),
          Msg(Mined(0, <<PeerTx>>, prev), Mined(0, <<PeerTx>>, prev)),
          Msg(Mined(idx, <<PeerTx>>, ZeroStr), Mined(idx, <<PeerTx>>, ZeroStr)),
          Msg(raw, raw),
          Msg(good, Mined(idx, <<>>, prev)) }
        \cup { [block |-> Block(b.index, b.transactions, 0, b.timestamp,
                                b.previous_hash, b.nonce),
                proof |-> b.hash] :
               b \in IF Len(bc.chain) >= 2 THEN {last_block(bc)} ELSE {} }

RECURSIVE SeqsOfLen(_, _)
SeqsOfLen(S, n) ==
    IF n = 0 THEN { <<>> }
    ELSE { <<x>> \o s : x \in S, s \in SeqsOfLen(S, n - 1) }

\* ---- request threads ----------------------------------------------------
NoResp == [code |-> "none", index |-> 0 - 1, announced |-> FALSE]

Resp(code) == [code |-> code, index |-> 0 - 1, announced |-> FALSE]

\* A thread between requests; resp is the response of its last request.
\* While it serves one: block and proof are the Block at hand and its
\* claimed hash, added what add_block returned, last_pos the position in
\* the chain of the object that mine's local last_block refers to.
Idle(resp) ==
    [pc |-> "idle", caller |-> "none", block |-> NoBlock, proof |-> NoHash,
     added |-> "none", last_pos |-> 0, chain_length |-> 0, current_len |-> 0,
     resps |-> <<>>, consensus_ret |-> "none", resp |-> resp]

IsChain == blockchain.type = "Blockchain"

Init ==
    /\ blockchain = NewBlockchain
    /\ peers = {}
    /\ thr = [t \in Threads |-> Idle(NoResp)]
    /\ ntx = 0

\* The other threads' locals after an append to the list object `obj`.
OthersSee(t, new, obj, tx) ==
    [u \in Threads |->
        IF u = t THEN new
        ELSE [thr[u] EXCEPT !.block = SeenThrough(@, obj, tx)]]

\* POST /new_transaction with a missing field (lines 151-153)
new_transaction_invalid(t) ==
    /\ thr[t].pc = "idle"
    /\ thr' = [thr EXCEPT ![t] = Idle(Resp("404"))]
    /\ UNCHANGED <<blockchain, peers, ntx>>

\* POST /new_transaction (lines 155-159)
new_transaction(t) ==
    /\ thr[t].pc = "idle"
    /\ ntx < MaxTx
    /\ IF IsChain
       THEN /\ blockchain' = add_new_transaction(blockchain, ntx + 1)
            /\ thr' = OthersSee(t, Idle(Resp("201")), blockchain.pool_obj, ntx + 1)
       ELSE /\ thr' = [thr EXCEPT ![t] = Idle(Resp("500"))]
            /\ UNCHANGED blockchain
    /\ ntx' = ntx + 1
    /\ UNCHANGED peers

\* /mine without the test of line 117
mine_start_no_guard(t) ==
    /\ thr[t].pc = "idle"
    /\ IsChain
    /\ Len(blockchain.chain) < MaxChain
    /\ \E now \in Timestamps :
         thr' = [thr EXCEPT ![t] =
                    [Idle(NoResp) EXCEPT
                        !.pc = "pow", !.caller = "mine",
                        !.last_pos = Len(blockchain.chain),
                        !.block = mine_new_block(blockchain, now)]]
    /\ UNCHANGED <<blockchain, peers, ntx>>

\* GET /mine, line 176 into mine(), lines 117-125
mine_start(t) ==
    /\ thr[t].pc = "idle"
    /\ IF ~IsChain
       THEN thr' = [thr EXCEPT ![t] = Idle(Resp("500"))]
       ELSE IF blockchain.unconfirmed_transactions = <<>>
       THEN thr' = [thr EXCEPT ![t] = Idle(Resp("NoPendingTx"))]
       ELSE /\ Len(blockchain.chain) < MaxChain
            /\ \E now \in Timestamps :
                 thr' = [thr EXCEPT ![t] =
                            [Idle(NoResp) EXCEPT
                                !.pc = "pow", !.caller = "mine",
                                !.last_pos = Len(blockchain.chain),
                                !.block = mine_new_block(blockchain, now)]]
    /\ UNCHANGED <<blockchain, peers, ntx>>

\* mine(), line 127: proof = self.proof_of_work(new_block)
mine_pow(t) ==
    /\ thr[t].pc = "pow"
    /\ LET b == proof_of_work(thr[t].block)
       IN  thr' = [thr EXCEPT ![t].block = b, ![t].proof = compute_hash(b),
                              ![t].pc = "add_block"]
    /\ UNCHANGED <<blockchain, peers, ntx>>

\* POST /add_block, lines 255-263: the Block built from the request body
receive_block(t) ==
    /\ thr[t].pc = "idle"
    /\ IF ~IsChain
       THEN thr' = [thr EXCEPT ![t] = Idle(Resp("500"))]
       ELSE /\ Len(blockchain.chain) < MaxChain
            /\ \E m \in ReceivedBlocks(blockchain) :
                 thr' = [thr EXCEPT ![t] =
                            [Idle(NoResp) EXCEPT
                                !.pc = "add_block", !.caller = "receive",
                                !.block = m.block, !.proof = m.proof]]
    /\ UNCHANGED <<blockchain, peers, ntx>>

\* Where add_block returns to.
AfterAddBlock(t) == IF thr[t].caller = "mine" THEN "clear" ELSE "received"

\* add_block, lines 53-59
add_block_check(t) ==
    /\ thr[t].pc = "add_block"
    /\ IF add_block_checks(blockchain, thr[t].block, thr[t].proof)
       THEN thr' = [thr EXCEPT ![t].pc = "append"]
       ELSE thr' = [thr EXCEPT ![t].pc = AfterAddBlock(t), ![t].added = "False"]
    /\ UNCHANGED <<blockchain, peers, ntx>>

\* add_block, lines 61-63
add_block_commit(t) ==
    /\ thr[t].pc = "append"
    /\ blockchain' = add_block_append(blockchain, thr[t].block, thr[t].proof)
    /\ thr' = [thr EXCEPT ![t].pc = AfterAddBlock(t), ![t].added = "True",
                          ![t].block.hash = thr[t].proof]
    /\ UNCHANGED <<peers, ntx>>

\* POST /add_block, lines 265-268
receive_return(t) ==
    /\ thr[t].pc = "received"
    /\ thr' = [thr EXCEPT ![t] =
                  Idle(Resp(IF thr[t].added = "True" THEN "201" ELSE "400"))]
    /\ UNCHANGED <<blockchain, peers, ntx>>

\* mine(), lines 130-132: the pool is rebound whatever add_block returned
mine_finish(t) ==
    /\ thr[t].pc = "clear"
    /\ blockchain' = mine_clear(blockchain)
    /\ thr' = [thr EXCEPT ![t].pc = "consensus"]
    /\ UNCHANGED <<peers, ntx>>

\* /mine, line 181, and consensus(), lines 284-290: the lengths read and the
\* peers' answers, one per peer, in the order the set is iterated
consensus_fetch(t) ==
    /\ thr[t].pc = "consensus"
    /\ IF ~IsChain
       THEN thr' = [thr EXCEPT ![t] = Idle(Resp("500"))]
       ELSE \E rs \in SeqsOfLen(PeerResponses, Cardinality(peers)) :
              thr' = [thr EXCEPT ![t].pc = "scan", ![t].resps = rs,
                         ![t].chain_length = Len(blockchain.chain),
                         ![t].current_len = Len(blockchain.chain)]
    /\ UNCHANGED <<blockchain, peers, ntx>>

\* consensus(), lines 291-299
consensus_decide(t) ==
    /\ thr[t].pc = "scan"
    /\ LET st == consensus_scan(thr[t].current_len, thr[t].resps)
       IN  IF st.raised
           THEN /\ thr' = [thr EXCEPT ![t] = Idle(Resp("500"))]
                /\ UNCHANGED blockchain
           ELSE IF st.longest_chain # <<>>
           THEN /\ blockchain' = AsList(st.longest_chain)
                /\ thr' = [thr EXCEPT ![t].pc = "announce",
                                      ![t].consensus_ret = "True"]
           ELSE /\ thr' = [thr EXCEPT ![t].pc = "announce",
                                      ![t].consensus_ret = "False"]
                /\ UNCHANGED blockchain
    /\ UNCHANGED <<peers, ntx>>

\* /mine, lines 183-186
mine_announce(t) ==
    /\ thr[t].pc = "announce"
    /\ IF ~IsChain
       THEN thr' = [thr EXCEPT ![t] = Idle(Resp("500"))]
       ELSE thr' = [thr EXCEPT ![t] =
                       Idle([code |-> "Mined",
                             index |-> last_block(blockchain).index,
                             announced |->
                                thr[t].chain_length = Len(blockchain.chain)])]
    /\ UNCHANGED <<blockchain, peers, ntx>>

\* GET /chain, lines 163-170: iterates blockchain.chain and reads each
\* element's __dict__
get_chain(t) ==
    /\ thr[t].pc = "idle"
    /\ thr' = [thr EXCEPT ![t] = Idle(Resp(IF IsChain THEN "200" ELSE "500"))]
    /\ UNCHANGED <<blockchain, peers, ntx>>

\* GET /pending_tx, lines 272-274
get_pending_tx(t) ==
    /\ thr[t].pc = "idle"
    /\ thr' = [thr EXCEPT ![t] = Idle(Resp(IF IsChain THEN "200" ELSE "500"))]
    /\ UNCHANGED <<blockchain, peers, ntx>>

\* POST /register_node, lines 192-200
register_new_peers(t) ==
    /\ thr[t].pc = "idle"
    /\ \E a \in PeerAddrs :
         /\ peers' = peers \cup {a}
         /\ thr' = [thr EXCEPT ![t] =
                       Idle(Resp(IF IsChain THEN "200" ELSE "500"))]
    /\ UNCHANGED <<blockchain, ntx>>

\* POST /register_with, lines 210-231.  The model runs it only while no
\* other request is in flight.
register_with_existing_node(t) ==
    /\ \A u \in Threads : thr[u].pc = "idle"
    /\ \E chain_dump \in ChainDumps, ps \in SUBSET PeerAddrs :
         LET r == create_chain_from_dump(chain_dump)
         IN  IF r.raised
             THEN /\ thr' = [thr EXCEPT ![t] = Idle(Resp("500"))]
                  /\ UNCHANGED <<blockchain, peers>>
             ELSE /\ blockchain' = r.bc
                  /\ peers' = peers \cup ps
                  /\ thr' = [thr EXCEPT ![t] = Idle(Resp("registered"))]
    /\ UNCHANGED ntx

\* POST /register_with, lines 229-231: the other node did not answer 200
register_with_refused(t) ==
    /\ \A u \in Threads : thr[u].pc = "idle"
    /\ thr' = [thr EXCEPT ![t] = Idle(Resp("passed on"))]
    /\ UNCHANGED <<blockchain, peers, ntx>>

Step(t) ==
    \/ new_transaction_invalid(t)
    \/ new_transaction(t)
    \/ mine_start(t)
    \/ mine_pow(t)
    \/ receive_block(t)
    \/ add_block_check(t)
    \/ add_block_commit(t)
    \/ receive_return(t)
    \/ mine_finish(t)
    \/ consensus_fetch(t)
    \/ consensus_decide(t)
    \/ mine_announce(t)
    \/ get_chain(t)
    \/ get_pending_tx(t)
    \/ register_new_peers(t)
    \/ register_with_existing_node(t)
    \/ register_with_refused(t)

\* Requests served by concurrent threads, interleaved at the steps above.
Next == \E t \in Threads : Step(t)

Spec == Init /\ [][Next]_vars

\* The same threads on a node that has no peers and registers with none.
NextLocal ==
    \E t \in Threads :
        \/ new_transaction(t)
        \/ mine_start(t)
        \/ mine_pow(t)
        \/ receive_block(t)
        \/ add_block_check(t)
        \/ add_block_commit(t)
        \/ receive_return(t)
        \/ mine_finish(t)
        \/ consensus_fetch(t)
        \/ consensus_decide(t)
        \/ mine_announce(t)

LocalSpec == Init /\ [][NextLocal]_vars

\* Requests served one at a time.
NextSeq == Step(1)

SeqSpec == Init /\ [][NextSeq]_vars

\* ---- properties ----------------------------------------------------------
Chain == blockchain.chain

Pool == blockchain.unconfirmed_transactions

\* Thread t takes a step of its own out of the program point pc.
Leaves(t, pc) == thr[t].pc = pc /\ thr'[t].pc # pc

\* C1: add_block returns False and changes nothing (not the chain, not the
\* pool, not the block, which gets no hash) when the block's previous_hash
\* is not the last block's stored hash or the proof is not valid; it returns
\* to its caller instead of raising.  The same for a block mined here and
\* for one received on /add_block.
AppendRejectsCleanly ==
    [][\A t \in Threads :
         ( /\ Leaves(t, "add_block")
           /\ \/ thr[t].block.previous_hash # last_block(blockchain).hash
              \/ ~is_valid_proof(thr[t].block, thr[t].proof) )
         => /\ blockchain' = blockchain
            /\ thr'[t].block = thr[t].block
            /\ thr'[t].block.hash = NoHash
            /\ thr'[t].added = "False"
            /\ thr'[t].pc = (IF thr[t].caller = "mine" THEN "clear" ELSE "received")
      ]_vars

\* A mined block and a received block have both just been rejected.
AppendRejectsCleanlyWitness ==
    \E t, u \in Threads :
        /\ thr[t].caller = "mine" /\ thr[t].pc = "clear" /\ thr[t].added = "False"
        /\ thr[u].caller = "receive" /\ thr[u].pc = "received"
        /\ thr[u].added = "False"

\* C2: when the block's previous_hash is the last block's stored hash and
\* the proof is valid, add_block goes on to append and returns True: the
\* chain is the old chain followed by exactly that block, whose stored hash
\* is the claimed hash, and the pool is untouched.
AppendAdmits ==
    [][\A t \in Threads :
         /\ ( /\ Leaves(t, "add_block")
              /\ thr[t].block.previous_hash = last_block(blockchain).hash
              /\ is_valid_proof(thr[t].block, thr[t].proof) )
            => (thr'[t].pc = "append" /\ blockchain' = blockchain)
         /\ Leaves(t, "append")
            => /\ thr'[t].added = "True"
               /\ thr'[t].pc \in {"clear", "received"}
               /\ Len(Chain') = Len(Chain) + 1
               /\ SubSeq(Chain', 1, Len(Chain)) = Chain
               /\ WithoutHash(last_block(blockchain')) = WithoutHash(thr[t].block)
               /\ last_block(blockchain').hash = thr[t].proof
               /\ Pool' = Pool
               /\ blockchain'.pool_obj = blockchain.pool_obj
      ]_vars

\* A mined block and then a received block have been admitted.
AppendAdmitsWitness ==
    /\ Len(Chain) = 3
    /\ Chain[2].transactions = <<1>>
    /\ thr[1].caller = "receive" /\ thr[1].pc = "received"
    /\ thr[1].added = "True"

\* C3: every block of the local chain after the first is linked to the
\* stored hash of the block before it and stores a valid proof of its own
\* content; whichever of the requests put it there.
AdmissionGate ==
    \A i \in 2..Len(Chain) :
        /\ Chain[i].previous_hash = Chain[i - 1].hash
        /\ is_valid_proof(WithoutHash(Chain[i]), Chain[i].hash)

\* The chain came from a dump on registration and grew by a mined block.
AdmissionGateWitness ==
    /\ Len(Chain) = 3
    /\ Chain[2].transactions = <<PeerTx>>
    /\ Chain[3].transactions = <<1>>
    /\ peers # {}
    /\ thr[1].resp.code = "Mined"

\* C4: the stored hash of every block of the local chain is compute_hash
\* over its current index, transactions, timestamp, previous_hash and nonce
\* (so the transactions of an admitted block never change), also when
\* /new_transaction is served while /mine is at work.
StoredHashInvariant ==
    \A i \in 1..Len(Chain) : Chain[i].hash = compute_hash(WithoutHash(Chain[i]))

\* C5: compute_hash depends on index, transactions, timestamp,
\* previous_hash and nonce only: it gives the same digest for a block
\* whether or not its hash attribute has been assigned, so the Block a
\* request holds hashes the same before and after add_block assigns its hash.
ComputeHashIgnoresHash ==
    \A t \in Threads :
        compute_hash(thr[t].block) = compute_hash(WithoutHash(thr[t].block))

\* C6: under concurrent requests every block of the local chain still has
\* previous_hash equal to the stored hash of the block before it, and no
\* two blocks of the chain have the same previous_hash.
ChainStaysLinked ==
    /\ \A i \in 2..Len(Chain) : Chain[i].previous_hash = Chain[i - 1].hash
    /\ \A i, j \in 1..Len(Chain) :
          i # j => Chain[i].previous_hash # Chain[j].previous_hash

\* C7: consensus never replaces the local chain by a peer's chain that is
\* not longer: a replacement leaves more blocks than the chain had when
\* consensus started, and answers whose length is not greater than that
\* are passed over, whatever chain they carry.
ConsensusNeedsLonger ==
    [][\A t \in Threads :
         Leaves(t, "scan")
         => /\ blockchain' # blockchain
               => Len(Chain') > thr[t].current_len
            /\ (\A k \in 1..Len(thr[t].resps) :
                    thr[t].resps[k].length <= thr[t].current_len)
               => /\ blockchain' = blockchain
                  /\ thr'[t].pc = "announce"
                  /\ thr'[t].consensus_ret = "False"
      ]_vars

\* consensus has returned after a peer reported a chain of the local length.
ConsensusNeedsLongerWitness ==
    \E t \in Threads :
        /\ thr[t].pc = "announce"
        /\ \E k \in 1..Len(thr[t].resps) :
              /\ thr[t].resps[k].length = thr[t].current_len
              /\ thr[t].resps[k].chain # <<>>
        /\ Len(Chain) = thr[t].current_len

\* The answers of thr[t].resps that report a chain longer than the local one
\* that was mined from the same genesis block.
LongerValid(t) ==
    { k \in 1..Len(thr[t].resps) :
        /\ thr[t].resps[k].length > thr[t].current_len
        /\ thr[t].resps[k].chain = PeerChain(thr[t].resps[k].length) }

\* C8: when some peer reports a longer valid chain, consensus returns True
\* and the local chain becomes the longest such chain; when none does, it
\* returns False and the local chain stays.
ConsensusAdoptsLongest ==
    [][\A t \in Threads :
         Leaves(t, "scan")
         => IF LongerValid(t) # {}
            THEN /\ thr'[t].consensus_ret = "True"
                 /\ \E k \in LongerValid(t) :
                       /\ \A j \in LongerValid(t) :
                             thr[t].resps[j].length <= thr[t].resps[k].length
                       /\ Chain' = thr[t].resps[k].chain
            ELSE /\ thr'[t].consensus_ret = "False"
                 /\ blockchain' = blockchain
      ]_vars

\* C9: /mine with an empty pool answers that there is nothing to mine and
\* changes neither the chain nor the pool nor the peers; the request ends
\* there, without consensus and without announce.
MineNothingPending ==
    [][\A t \in Threads :
         (mine_start(t) /\ IsChain /\ Pool = <<>>)
         => /\ thr'[t] = Idle(Resp("NoPendingTx"))
            /\ ~thr'[t].resp.announced
            /\ blockchain' = blockchain
            /\ peers' = peers
      ]_vars

\* /mine has just answered so, on a node that has a peer and two blocks.
MineNothingPendingWitness ==
    /\ thr[1].resp.code = "NoPendingTx"
    /\ Pool = <<>>
    /\ Len(Chain) >= 2
    /\ peers # {}

\* What mine has done when it returns: the block after the one it read as
\* last_block, holding the pool's transactions, is the last one; the pool
\* is empty.
MineBuildsNext(t) ==
    LET new == last_block(blockchain')
        old == Chain[thr[t].last_pos]
    IN  /\ thr[t].added = "True"
        /\ Len(Chain') = thr[t].last_pos + 1
        /\ SubSeq(Chain', 1, thr[t].last_pos) = SubSeq(Chain, 1, thr[t].last_pos)
        /\ new.index = old.index + 1
        /\ new.previous_hash = old.hash
        /\ new.transactions = Pool
        /\ Pool' = <<>>

\* C10: with nothing else going on, mine on a non-empty pool returns True
\* with the chain one block longer; the new last block follows the old one
\* (index, previous_hash), carries the pool's transactions in order, and
\* is_valid_proof(new block, its stored hash) is true; the pool is empty.
MinePostcondition ==
    [][\A t \in Threads :
         Leaves(t, "clear")
         => /\ MineBuildsNext(t)
            /\ is_valid_proof(last_block(blockchain'), last_block(blockchain').hash)
      ]_vars

\* The same without the call of is_valid_proof on the admitted block.
MineBuildsNextOnly ==
    [][\A t \in Threads : Leaves(t, "clear") => MineBuildsNext(t)]_vars

\* C11: mine clears the pool and reports a mined block only when add_block
\* admitted its block: when add_block returned False, mine leaves the chain
\* and the pool as they are and the request does not go on as after a
\* mined block.
MineKeepsPoolOnReject ==
    [][\A t \in Threads :
         (Leaves(t, "clear") /\ thr[t].added = "False")
         => /\ blockchain' = blockchain
            /\ thr'[t].pc # "consensus"
      ]_vars

\* A block record of `chain` whose previous_hash is not the stored hash of
\* the record before it, or whose stored hash is not the digest of its
\* other fields.
BadLink(chain) ==
    \E i \in 2..Len(chain) : chain[i].previous_hash # chain[i - 1].hash

BadHash(chain) ==
    \E i \in 1..Len(chain) : chain[i].hash # compute_hash(WithoutHash(chain[i]))

\* C12: check_chain_validity answers every sequence of block records a
\* peer sent: False when a record is badly linked or carries a hash that
\* is not its digest, True only when no record is.
ValidityAnswersPeerChain ==
    \A t \in Threads :
        thr[t].pc = "scan" =>
            \A k \in 1..Len(thr[t].resps) :
                LET chain == thr[t].resps[k].chain
                    v     == check_chain_validity(chain, TRUE)
                IN  /\ v \in {"True", "False"}
                    /\ (BadLink(chain) \/ BadHash(chain)) => v = "False"
                    /\ v = "True" => ~(BadLink(chain) \/ BadHash(chain))

\* C13: the index of every block of the chain is its position, the genesis
\* block at 0.
IndexIsPosition ==
    \A i \in 1..Len(Chain) : Chain[i].index = i - 1

\* A step in which consensus() or register_with_existing_node rebinds the
\* node's chain.
ChainReplaced ==
    \E t \in Threads :
        \/ Leaves(t, "scan") /\ thr'[t].consensus_ret = "True"
        \/ register_with_existing_node(t)

\* C14: a step that does not replace the chain leaves every block of the
\* chain in its place and unaltered and appends at most one block; the
\* first block is the genesis block (index 0, no transactions, timestamp 0,
\* previous_hash "0").
AppendOnlyHistory ==
    [][~ChainReplaced
       => /\ Len(Chain') \in {Len(Chain), Len(Chain) + 1}
          /\ SubSeq(Chain', 1, Len(Chain)) = Chain
          /\ Chain'[1].index = 0
          /\ Chain'[1].transactions = <<>>
          /\ Chain'[1].timestamp = 0
          /\ Chain'[1].previous_hash = ZeroStr
      ]_vars

\* The Block and hash that thread t hands to add_block are those of the
\* chain's last block: the pair is applied a second time.
SecondAppend(t) ==
    /\ Len(Chain) >= 2
    /\ thr[t].block = [WithoutHash(last_block(blockchain)) EXCEPT !.txs_obj = 0]
    /\ thr[t].proof = last_block(blockchain).hash
    /\ is_valid_proof(thr[t].block, thr[t].proof)

\* C15: add_block applied to a valid block and hash that it has just
\* admitted returns False and leaves the chain with the one copy.
AppendTwiceAddsOnce ==
    [][\A t \in Threads :
         (Leaves(t, "add_block") /\ SecondAppend(t))
         => /\ thr'[t].added = "False"
            /\ blockchain' = blockchain
            /\ Cardinality({ i \in 1..Len(Chain') :
                               Chain'[i].hash = thr[t].proof }) = 1
      ]_vars

AppendTwiceAddsOnceWitness ==
    /\ thr[1].pc = "received"
    /\ thr[1].added = "False"
    /\ SecondAppend(1)
    /\ thr[1].block.transactions = <<1>>

\* C16: proof_of_work leaves in the block's nonce the smallest value,
\* counted up from 0, whose digest starts with `difficulty` zeros, returns
\* that digest, which is_valid_proof accepts for the block, and changes no
\* other field of the block.
ProofOfWorkFirstNonce ==
    [][\A t \in Threads :
         Leaves(t, "pow")
         => LET before == thr[t].block
                after  == thr'[t].block
                digest == thr'[t].proof
            IN  /\ digest = compute_hash(after)
                /\ StartsWithZeros(digest, difficulty)
                /\ is_valid_proof(after, digest)
                /\ after.nonce >= 0
                /\ \A n \in 0..(after.nonce - 1) :
                     ~StartsWithZeros(compute_hash([before EXCEPT !.nonce = n]),
                                      difficulty)
                /\ [after EXCEPT !.nonce = before.nonce] = before
      ]_vars

\* The search passed over a nonce before it found one.
ProofOfWorkFirstNonceWitness ==
    /\ thr[1].pc = "add_block"
    /\ thr[1].caller = "mine"
    /\ thr[1].block.nonce > 0
    /\ is_valid_proof(thr[1].block, thr[1].proof)

\* Every block of `bc` after the first passes add_block's checks against
\* the chain before it.
AdmittedInOrder(bc) ==
    \A i \in 2..Len(bc.chain) :
        add_block_checks([bc EXCEPT !.chain = SubSeq(bc.chain, 1, i - 1)],
                         WithoutHash(bc.chain[i]), bc.chain[i].hash)

\* `bc` holds a fresh genesis block and then the blocks of the dump d.
BuiltFrom(bc, d) ==
    /\ Len(bc.chain) = IF d = <<>> THEN 1 ELSE Len(d)
    /\ bc.chain[1] = GenesisBlock
    /\ \A i \in 2..Len(d) : bc.chain[i] = d[i]
    /\ bc.unconfirmed_transactions = <<>>

\* C17: register_with_existing_node either rebinds the node's chain to one
\* built from a dump all of whose later blocks passed add_block in order,
\* or fails and leaves chain, pool and peers as they were.
DumpAllOrNothing ==
    [][\A t \in Threads :
         ( /\ thr[t].pc = "idle" /\ thr'[t].pc = "idle"
           /\ thr'[t].resp.code \in {"registered", "500"}
           /\ register_with_existing_node(t) )
         => \/ /\ thr'[t].resp.code = "registered"
               /\ \E d \in ChainDumps : BuiltFrom(blockchain', d)
               /\ AdmittedInOrder(blockchain')
            \/ /\ thr'[t].resp.code = "500"
               /\ blockchain' = blockchain
               /\ peers' = peers
      ]_vars

\* A registration failed on a node that had a block of its own and a
\* pending transaction; no peer is known, so the 500 is not consensus's.
DumpAllOrNothingWitness ==
    /\ thr[1].pc = "idle"
    /\ thr[1].resp.code = "500"
    /\ peers = {}
    /\ Len(Chain) = 2
    /\ Pool # <<>>

\* C18: check_chain_validity, given the Block objects of the node's chain,
\* puts the first block through the same two checks as the others: it
\* answers True exactly when every block, the first included, carries a
\* valid proof and the previous_hash expected at its place ("0" for the
\* first), and False when the first block's hash lacks the leading zeros.
GenesisCheckedLikeTheRest ==
    LET v == check_chain_validity(Chain, FALSE)
    IN  /\ (v = "True") =
              (\A i \in 1..Len(Chain) :
                  /\ is_valid_proof(WithoutHash(Chain[i]), Chain[i].hash)
                  /\ Chain[i].previous_hash =
                        (IF i = 1 THEN ZeroStr ELSE Chain[i - 1].hash))
        /\ ~StartsWithZeros(Chain[1].hash, difficulty) => v = "False"

\* A chain that starts with create_genesis_block's block, whose later
\* blocks all passed add_block, and that the check rejects.
GenesisCheckedLikeTheRestWitness ==
    /\ Len(Chain) = MaxChain
    /\ Chain[1] = GenesisBlock
    /\ ~StartsWithZeros(Chain[1].hash, difficulty)
    /\ AdmittedInOrder(blockchain)
    /\ check_chain_validity(Chain, FALSE) = "False"

Accepted == 1..ntx

\* The blocks of the chain that hold tx and whose stored hash is the digest
\* of their content.
HashedHolders(tx) ==
    { i \in 1..Len(Chain) :
        /\ \E k \in 1..Len(Chain[i].transactions) :
               Chain[i].transactions[k] = tx
        /\ Chain[i].hash = compute_hash(WithoutHash(Chain[i])) }

\* The blocks of the chain that hold tx.
Holders(tx) ==
    { i \in 1..Len(Chain) :
        \E k \in 1..Len(Chain[i].transactions) : Chain[i].transactions[k] = tx }

\* C20: every accepted transaction is in the pending pool or in exactly one
\* block of the chain, and that block's stored hash is the digest of its
\* content.
NoTransactionLost ==
    \A tx \in Accepted :
        \/ \E k \in 1..Len(Pool) : Pool[k] = tx
        \/ Cardinality(Holders(tx)) = 1 /\ HashedHolders(tx) = Holders(tx)

====
